---- MODULE Spec2Model ----
(***************************************************************************)
(* Payment-gated content agent (Soumojit28/ai-content-agent).              *)
(*                                                                         *)
(* The module models the job store of main.py (jobs, payment_instances),   *)
(* the three coroutines that touch it (start_job, handle_payment_status,   *)
(* get_status) and the content pipeline of graph.py that a confirmed job   *)
(* runs.  Coroutines run on one asyncio event loop: the code between two   *)
(* awaits is one atomic step, and every await on an external call (payment *)
(* provider, search, LLM, image agent) is a point where other coroutines   *)
(* may run and where the call may return or raise.                         *)
(*                                                                         *)
(* The HTTP helpers under tools/ are followed one call at a time, each in  *)
(* a specification of its own: SerpClient._request_with_retry (SpecRetry)  *)
(* and generate_image_with_masumi (SpecImage, SpecImageLive); so are the   *)
(* pure helpers extract_json (SpecJson) and SerpClient._normalize_results  *)
(* (SpecNormalize).                                                        *)
(***************************************************************************)
EXTENDS Integers, Sequences, FiniteSets, TLC

VARIABLES
    env,                \* process environment: which configuration value is wrong, if any
    jobs,               \* main.py `jobs`: job_id -> job record
    payment_instances,  \* main.py `payment_instances`: job ids that hold a Payment object
    monitoring,         \* job ids whose Payment object has its status-monitoring task running
    requests,           \* start_job coroutines: job_id -> [pc, input]
    handlers,           \* handle_payment_status coroutines, in order of invocation
    pipeline_runs,      \* job_id -> number of times execute_agentic_task was started for it
    status_queries,     \* get_status coroutines waiting on check_payment_status: their job ids
    status_checks,      \* number of check_payment_status calls get_status has made
    response,           \* what the step just taken returned to its HTTP caller, if anything
    retry_call,         \* one call of SerpClient._request_with_retry: its locals and what it did
    image_call,         \* one call of generate_image_with_masumi: its locals and what it did
    json_call,          \* one call of extract_json: its arguments and how it ended
    normalize_call      \* one call of SerpClient._normalize_results: its arguments and result

\* the job store and its coroutines (main.py, graph.py)
appVars == <<env, jobs, payment_instances, monitoring, requests, handlers, pipeline_runs,
             status_queries, status_checks, response>>
\* the helpers under tools/ and agents/, each followed through one call
toolVars == <<retry_call, image_call, json_call, normalize_call>>

vars == <<appVars, toolVars>>

-----------------------------------------------------------------------------
(* Bounds of the model *)

\* start_job requests (each draws a fresh uuid4 job_id)
MaxJobs == 2
\* largest `retries` a SerpClient is constructed with
MaxRetries == 4
\* largest `max_polls` wait_for_image_result is called with
MaxPolls == 3
\* deliveries of the payment-confirmation callback, over all jobs
MaxCallbacks == 2
\* live provider checks made by get_status, over all jobs
MaxQueries == 1

JobIds == 1..MaxJobs

\* Python's None
None == "None"

-----------------------------------------------------------------------------
(* Values *)

\* os.getenv / module-level configuration read by start_job
EnvStates == {"ok", "agent_identifier_missing", "payment_url_invalid", "payment_api_key_missing"}

\* Python values are tagged with their type: None, a str (the sequence of its
\* comma-separated pieces: "k1, k2" is Str(<<"k1", " k2">>)), a list.
NoneValue == [kind |-> "None"]
Str(pieces) == [kind |-> "str", val |-> pieces]
List(items) == [kind |-> "list", val |-> items]

\* str.strip() on the pieces used here
Strip(s) ==
    CASE s = " k2" -> "k2"
      [] s = "k1 " -> "k1"
      [] OTHER -> s

\* [k.strip() for k in input_data["keywords"].split(",")]
SplitKeywords(s) == List([i \in 1..Len(s.val) |-> Strip(s.val[i])])

\* request bodies: input_data is dict[str, str]; topic/tone/platform may be missing
Inputs ==
    { [has_required |-> TRUE,  keywords |-> Str(<<"k1", " k2">>)],
      [has_required |-> FALSE, keywords |-> NoneValue] }

\* dict.get(key, default) on a mapping modelled as a function
Get(d, k, default) == IF k \in DOMAIN d THEN d[k] ELSE default

\* the empty dict
EmptyDict == <<>>

-----------------------------------------------------------------------------
(* The content pipeline: graph.py, state.py *)

\* state.py: the keys of the State TypedDict, which are the channels of
\* StateGraph(State)
StateKeys ==
    { "topic", "tone", "platform", "keywords", "link", "audience", "request_id",
      "use_emojis", "insights", "context_snippets", "research_summary", "post",
      "hashtag_package", "metadata", "errors" }

\* The graph applies a node's returned dict to the state: a returned key that
\* is a channel of StateGraph(State) replaces the channel's value, the other
\* channels keep theirs; a returned key that is no channel is not written.
Merge(state, update) ==
    [k \in DOMAIN state \cup (DOMAIN update \cap StateKeys) |->
        IF k \in DOMAIN update THEN update[k] ELSE state[k]]

\* MetadataWith starting from an empty dict instead of a copy
MetadataWith_Fresh(state, key, value) ==
    (key :> value)

\* dict(state.get("metadata", {})) followed by metadata[key] = value
MetadataWith(state, key, value) ==
    (key :> value) @@ Get(state, "metadata", EmptyDict)

\* ContentGraph._fetch_snippets, after fetch_context returned `snippets`
FetchSnippetsUpdate(state, snippets) ==
    ("context_snippets" :> snippets)
    @@ ("metadata" :> MetadataWith(state, "serp_snippet_count", Len(snippets)))

\* ContentGraph._synthesize_research, after summarize returned `summary`
SynthesizeResearchUpdate(state, summary) ==
    ("insights" :> summary.insights)
    @@ ("research_summary" :> summary.summary)
    @@ ("metadata" :> MetadataWith(state, "research_summary", summary.summary))

\* ContentGraph._generate_copy, after generate_post returned `post`
GenerateCopyUpdate(state, post) == ("post" :> post)

\* ContentGraph._generate_image: post = state.get("post") or {};
\* image_prompt = post.get("image_prompt")
ImagePrompt(state) == Get(Get(state, "post", EmptyDict), "image_prompt", "")

\* a generate_image that never skips
GenerateImageSkipped_Never(state) ==
    FALSE

\* ContentGraph._generate_image: `if not image_prompt: return {}`
GenerateImageSkipped(state) == ImagePrompt(state) = ""

\* ContentGraph._generate_image, generate_image_with_masumi returned image_result
GenerateImageUpdate(state, image_result) ==
    ("metadata" :> MetadataWith(state, "image",
        [job_id |-> image_result.job_id, ipfs_hash |-> image_result.ipfs_hash,
         image_ipfs_url |-> image_result.image_ipfs_url,
         raw_status |-> image_result.raw_status]))
    @@ ("image_ipfs_hash" :> image_result.ipfs_hash)
    @@ ("image_ipfs_url" :> image_result.image_ipfs_url)
    @@ ("image_job" :> [job_id |-> image_result.job_id,
                        raw_status |-> image_result.raw_status])

\* f"Unexpected image error: {e}"
UnexpectedImageError(e) == <<"Unexpected image error: ", e>>

\* ContentGraph._generate_image, generate_image_with_masumi raised e:
\* `except MasumiImageClientError` or `except Exception`
GenerateImageErrorUpdate(state, e) ==
    IF e.type = "MasumiImageClientError"
    THEN ("metadata" :> MetadataWith(state, "image_error", <<e.msg>>))
         @@ ("image_error" :> <<e.msg>>)
    ELSE ("metadata" :> MetadataWith(state, "image_error", UnexpectedImageError(e.msg)))
         @@ ("image_error" :> <<e.msg>>)

\* ContentGraph._generate_hashtags, after generate_hashtags returned `package`
GenerateHashtagsUpdate(state, package) == ("hashtag_package" :> package)

\* the entry and exit of the graph
START == "START"
END == "END"

\* the edges with generate_image wired before generate_copy
Edge_ImageBeforeCopy(node) ==
    CASE node = START -> "fetch_snippets"
      [] node = "fetch_snippets" -> "synthesize_research"
      [] node = "synthesize_research" -> "generate_image"
      [] node = "generate_image" -> "generate_copy"
      [] node = "generate_copy" -> "generate_hashtags"
      [] node = "generate_hashtags" -> END

\* the edges with generate_image wired back to generate_copy
Edge_Cycle(node) ==
    CASE node = START -> "fetch_snippets"
      [] node = "fetch_snippets" -> "synthesize_research"
      [] node = "synthesize_research" -> "generate_copy"
      [] node = "generate_copy" -> "generate_image"
      [] node = "generate_image" -> "generate_copy"
      [] node = "generate_hashtags" -> END

\* _build_graph: graph.add_edge(node, Edge(node))
Edge(node) ==
    CASE node = START -> "fetch_snippets"
      [] node = "fetch_snippets" -> "synthesize_research"
      [] node = "synthesize_research" -> "generate_copy"
      [] node = "generate_copy" -> "generate_image"
      [] node = "generate_image" -> "generate_hashtags"
      [] node = "generate_hashtags" -> END

-----------------------------------------------------------------------------
(* What the external collaborators return or raise *)

\* SerpClient.fetch_context
SearchResults == { <<[title |-> "Result", snippet |-> "Insightful note", source |-> "test"]>> }
\* ResearchAgent.summarize
Summaries == { [insights |-> <<"Insight A">>, summary |-> "Summary"] }
\* CopywritingAgent.generate_post: with an image_prompt, with an empty one,
\* without one
Posts ==
    { ("post_body" :> "Body") @@ ("image_prompt" :> "an image prompt"),
      ("post_body" :> "Body") @@ ("image_prompt" :> ""),
      ("post_body" :> "Body") }
\* generate_image_with_masumi
ImageResults ==
    { [job_id |-> "fake-job", ipfs_hash |-> "QmFakeHash",
       image_ipfs_url |-> "https://ipfs.io/ipfs/QmFakeHash", raw_status |-> "completed"] }
ImageErrors ==
    { [type |-> "MasumiImageClientError", msg |-> "boom"],
      [type |-> "Exception", msg |-> "connect timeout"] }
\* HashtagAgent.generate_hashtags
Packages == { [hashtags |-> <<"AI">>, explainer |-> "test"] }
\* exceptions of the stages that do not catch them
SerpApiError == [type |-> "SerpApiError", msg |-> "SerpAPI request failed after 3 attempts"]
LlmError == [type |-> "Exception", msg |-> "LLM call failed"]
\* no exception was caught
NoException == [type |-> "None", msg |-> "None"]
\* Payment.complete_payment raising, payment_instances[job_id] raising
PaymentError == [type |-> "Exception", msg |-> "complete_payment failed"]
KeyError == [type |-> "KeyError", msg |-> "KeyError: job_id"]
\* Payment.check_payment_status: the value of status["data"]["status"] (None
\* when the key is missing), or the exception raised
ProviderStatuses == { "FundsLocked", "None" }
CheckErrors == { "ValueError", "Exception" }

\* payment_request["data"]["blockchainIdentifier"]: issued by the provider, one per request
BlockchainIdentifier(j) == <<"blockchain", j>>

-----------------------------------------------------------------------------
(* The job record: main.py *)

\* no result stored: jobs[job_id]["result"] is None
NoResult == [kind |-> "None"]

\* NewJobRecord with the job stored as already running
NewJobRecord_Running(blockchain_identifier, input_data) ==
    [ status |-> "running",
      payment_status |-> "pending",
      blockchain_identifier |-> blockchain_identifier,
      input_data |-> input_data,
      result |-> NoResult,
      error |-> None ]

\* start_job: jobs[job_id] = {...}.  error |-> None stands for the record
\* having no "error" key.
NewJobRecord(blockchain_identifier, input_data) ==
    [ status |-> "awaiting_payment",
      payment_status |-> "pending",
      blockchain_identifier |-> blockchain_identifier,
      input_data |-> input_data,
      result |-> NoResult,
      error |-> None ]

\* handle_payment_status: jobs[job_id]["status"] = "running", and the keywords
\* of the stored input_data split in place when they are a str
RunningRecord(job) ==
    [job EXCEPT !.status = "running",
                !.input_data.keywords = IF @.kind = "str" THEN SplitKeywords(@) ELSE @]

\* CompletedRecord without the result
CompletedRecord_NoResult(job, result) ==
    [job EXCEPT !.status = "completed", !.payment_status = "completed"]

\* handle_payment_status: the three assignments after complete_payment returned
CompletedRecord(job, result) ==
    [job EXCEPT !.status = "completed", !.payment_status = "completed", !.result = result]

\* handle_payment_status: the two assignments of the except branch
FailedRecord(job, e) ==
    [job EXCEPT !.status = "failed", !.error = e.msg]

\* LangGraphService.execute_task: the State the graph is invoked with
InitialState(input_data) ==
    ("topic" :> "Graph test") @@ ("tone" :> "bold") @@ ("platform" :> "linkedin")
    @@ (IF input_data.keywords.kind = "list"
        THEN ("keywords" :> input_data.keywords.val) ELSE EmptyDict)

\* LangGraphService.execute_task: the ServiceResult built from the final State
ServiceResult(state) == [kind |-> "ServiceResult", json_dict |-> state]

\* no HTTP response was produced by the step
NoResponse == [endpoint |-> "none", status_code |-> 0]

\* the helper is not being called
NoCall == [pc |-> "idle"]

-----------------------------------------------------------------------------
(* Initial state: the module has just been imported *)

Init ==
    /\ env \in EnvStates
    /\ jobs = EmptyDict
    /\ payment_instances = {}
    /\ monitoring = {}
    /\ requests = [r \in JobIds |-> [pc |-> "idle", input |-> NoneValue]]
    /\ handlers = <<>>
    /\ pipeline_runs = [j \in JobIds |-> 0]
    /\ status_queries = <<>>
    /\ status_checks = 0
    /\ response = NoResponse
    /\ retry_call = NoCall
    /\ image_call = NoCall
    /\ json_call = NoCall
    /\ normalize_call = NoCall

-----------------------------------------------------------------------------
(* start_job *)

BadRequest(r, detail) ==
    [endpoint |-> "start_job", job_id |-> r, status_code |-> 400, detail |-> detail]

\* POST /start_job arrives: job_id = uuid4(), the configuration checks, the
\* reads of content_payload["topic"|"tone"|"platform"], up to the await of
\* create_payment_request.  The HTTPException(500) of a configuration check is
\* raised inside the try block, whose `except Exception` answers 400.
StartJobCall(r, input) ==
    /\ requests[r].pc = "idle"
    /\ \A q \in JobIds : q < r => requests[q].pc # "idle"
    /\ IF env # "ok"
       THEN /\ requests' = [requests EXCEPT ![r] = [pc |-> "done", input |-> input]]
            /\ response' = BadRequest(r, "Input_data or identifier_from_purchaser is missing, invalid, or does not adhere to the schema.")
       ELSE IF ~input.has_required
       THEN /\ requests' = [requests EXCEPT ![r] = [pc |-> "done", input |-> input]]
            /\ response' = BadRequest(r, "Bad Request: If input_data or identifier_from_purchaser is missing, invalid, or does not adhere to the schema.")
       ELSE /\ requests' = [requests EXCEPT ![r] = [pc |-> "create_payment_request", input |-> input]]
            /\ response' = NoResponse
    /\ UNCHANGED <<env, jobs, payment_instances, monitoring, handlers, pipeline_runs, status_queries, status_checks>>

\* create_payment_request returned: the job is stored, the Payment object is
\* registered, and start_status_monitoring is awaited
StartJobStore(r) ==
    /\ requests[r].pc = "create_payment_request"
    /\ jobs' = (r :> NewJobRecord(BlockchainIdentifier(r), requests[r].input)) @@ jobs
    /\ payment_instances' = payment_instances \cup {r}
    /\ requests' = [requests EXCEPT ![r].pc = "start_status_monitoring"]
    /\ response' = NoResponse
    /\ UNCHANGED <<env, monitoring, handlers, pipeline_runs, status_queries, status_checks>>

\* StartJobPaymentRequestFails with the job stored before the provider is called
StartJobPaymentRequestFails_StoresJob(r) ==
    /\ requests[r].pc = "create_payment_request"
    /\ jobs' = (r :> NewJobRecord(BlockchainIdentifier(r), requests[r].input)) @@ jobs
    /\ requests' = [requests EXCEPT ![r].pc = "done"]
    /\ response' = BadRequest(r, "Input_data or identifier_from_purchaser is missing, invalid, or does not adhere to the schema.")
    /\ UNCHANGED <<env, payment_instances, monitoring, handlers, pipeline_runs, status_queries, status_checks>>

\* create_payment_request raised: `except Exception` answers 400
StartJobPaymentRequestFails(r) ==
    /\ requests[r].pc = "create_payment_request"
    /\ requests' = [requests EXCEPT ![r].pc = "done"]
    /\ response' = BadRequest(r, "Input_data or identifier_from_purchaser is missing, invalid, or does not adhere to the schema.")
    /\ UNCHANGED <<env, jobs, payment_instances, monitoring, handlers, pipeline_runs, status_queries, status_checks>>

\* StartJobReturn without a monitor having been started
StartJobReturn_NoMonitor(r) ==
    /\ requests[r].pc = "start_status_monitoring"
    /\ requests' = [requests EXCEPT ![r].pc = "returned"]
    /\ response' = [endpoint |-> "start_job", job_id |-> r, status_code |-> 200,
                    status |-> "success",
                    blockchainIdentifier |-> BlockchainIdentifier(r)]
    /\ UNCHANGED <<env, jobs, payment_instances, monitoring, handlers, pipeline_runs, status_queries, status_checks>>

\* start_status_monitoring returned: the monitor runs, the success body is returned
StartJobReturn(r) ==
    /\ requests[r].pc = "start_status_monitoring"
    /\ monitoring' = monitoring \cup {r}
    /\ requests' = [requests EXCEPT ![r].pc = "returned"]
    /\ response' = [endpoint |-> "start_job", job_id |-> r, status_code |-> 200,
                    status |-> "success",
                    blockchainIdentifier |-> BlockchainIdentifier(r)]
    /\ UNCHANGED <<env, jobs, payment_instances, handlers, pipeline_runs, status_queries, status_checks>>

\* start_status_monitoring raised: `except Exception` answers 400
StartJobMonitoringFails(r) ==
    /\ requests[r].pc = "start_status_monitoring"
    /\ requests' = [requests EXCEPT ![r].pc = "done"]
    /\ response' = BadRequest(r, "Input_data or identifier_from_purchaser is missing, invalid, or does not adhere to the schema.")
    /\ UNCHANGED <<env, jobs, payment_instances, monitoring, handlers, pipeline_runs, status_queries, status_checks>>

-----------------------------------------------------------------------------
(* handle_payment_status *)

\* PaymentCallback delivered as soon as the Payment object is registered
PaymentCallback_BeforeReturn(j) ==
    /\ j \in payment_instances
    /\ Len(handlers) < MaxCallbacks
    /\ jobs' = [jobs EXCEPT ![j] = RunningRecord(@)]
    /\ handlers' = Append(handlers,
            [job |-> j, pc |-> Edge(START),
             state |-> InitialState(jobs'[j].input_data),
             image_calls |-> 0, raised |-> NoException])
    /\ pipeline_runs' = [pipeline_runs EXCEPT ![j] = @ + 1]
    /\ response' = NoResponse
    /\ UNCHANGED <<env, payment_instances, monitoring, requests, status_queries, status_checks>>

\* the monitor's callback: payment_callback(blockchain_identifier) awaits
\* handle_payment_status(job_id, blockchain_identifier).  The handler sets the
\* job running, takes the stored input_data and calls execute_agentic_task,
\* which runs to the first await of the graph (fetch_context).
PaymentCallback(j) ==
    /\ j \in monitoring
    /\ Len(handlers) < MaxCallbacks
    /\ jobs' = [jobs EXCEPT ![j] = RunningRecord(@)]
    /\ handlers' = Append(handlers,
            [job |-> j, pc |-> Edge(START),
             state |-> InitialState(jobs'[j].input_data),
             image_calls |-> 0, raised |-> NoException])
    /\ pipeline_runs' = [pipeline_runs EXCEPT ![j] = @ + 1]
    /\ response' = NoResponse
    /\ UNCHANGED <<env, payment_instances, monitoring, requests, status_queries, status_checks>>

\* HandleException without the stop_status_monitoring / del of the except branch
HandleException_KeepsMonitor(i, state, e) ==
    LET j == handlers[i].job IN
    /\ jobs' = [jobs EXCEPT ![j] = FailedRecord(@, e)]
    /\ UNCHANGED <<payment_instances, monitoring>>
    /\ handlers' = [handlers EXCEPT ![i].pc = "failed", ![i].raised = e, ![i].state = state]

\* HandleException that records the failure and lets the run go on
HandleException_Continues(i, state, e) ==
    LET j == handlers[i].job IN
    /\ jobs' = [jobs EXCEPT ![j] = FailedRecord(@, e)]
    /\ payment_instances' = payment_instances \ {j}
    /\ monitoring' = monitoring \ {j}
    /\ handlers' = [handlers EXCEPT ![i].raised = e, ![i].state = state]

\* HandleException that stops the monitors of all jobs
HandleException_StopsAll(i, state, e) ==
    LET j == handlers[i].job IN
    /\ jobs' = [jobs EXCEPT ![j] = FailedRecord(@, e)]
    /\ payment_instances' = {}
    /\ monitoring' = {}
    /\ handlers' = [handlers EXCEPT ![i].pc = "failed", ![i].raised = e, ![i].state = state]

\* the except branch: the job is marked failed, the monitor is stopped and
\* the Payment object dropped if it is still registered; nothing is re-raised
HandleException(i, state, e) ==
    LET j == handlers[i].job IN
    /\ jobs' = [jobs EXCEPT ![j] = FailedRecord(@, e)]
    /\ payment_instances' = payment_instances \ {j}
    /\ monitoring' = monitoring \ {j}
    /\ handlers' = [handlers EXCEPT ![i].pc = "failed", ![i].raised = e, ![i].state = state]

\* a stage returned `update`: the graph merges it and awaits the next stage
StageDone(i, update, next) ==
    /\ handlers' = [handlers EXCEPT ![i].state = Merge(@, update), ![i].pc = next]
    /\ UNCHANGED <<jobs, payment_instances, monitoring>>

FetchSnippets(i) ==
    /\ handlers[i].pc = "fetch_snippets"
    /\ \/ \E snippets \in SearchResults :
            StageDone(i, FetchSnippetsUpdate(handlers[i].state, snippets), Edge("fetch_snippets"))
       \/ HandleException(i, handlers[i].state, SerpApiError)
    /\ response' = NoResponse
    /\ UNCHANGED <<env, requests, pipeline_runs, status_queries, status_checks>>

SynthesizeResearch(i) ==
    /\ handlers[i].pc = "synthesize_research"
    /\ \/ \E summary \in Summaries :
            StageDone(i, SynthesizeResearchUpdate(handlers[i].state, summary), Edge("synthesize_research"))
       \/ HandleException(i, handlers[i].state, LlmError)
    /\ response' = NoResponse
    /\ UNCHANGED <<env, requests, pipeline_runs, status_queries, status_checks>>

GenerateCopy(i) ==
    /\ handlers[i].pc = "generate_copy"
    /\ \/ \E post \in Posts :
            StageDone(i, GenerateCopyUpdate(handlers[i].state, post), Edge("generate_copy"))
       \/ HandleException(i, handlers[i].state, LlmError)
    /\ response' = NoResponse
    /\ UNCHANGED <<env, requests, pipeline_runs, status_queries, status_checks>>

\* generate_image awaited generate_image_with_masumi, which returned or raised
ImageStageDone(i, update, next) ==
    /\ handlers' = [handlers EXCEPT ![i].state = Merge(@, update), ![i].pc = next,
                                    ![i].image_calls = @ + 1]
    /\ UNCHANGED <<jobs, payment_instances, monitoring>>

\* generate_image: returns {} when the post has no image_prompt; otherwise
\* generate_image_with_masumi returns or raises, and the node catches every
\* exception
GenerateImage(i) ==
    /\ handlers[i].pc = "generate_image"
    /\ IF GenerateImageSkipped(handlers[i].state)
       THEN StageDone(i, EmptyDict, Edge("generate_image"))
       ELSE \/ \E image_result \in ImageResults :
                 ImageStageDone(i, GenerateImageUpdate(handlers[i].state, image_result), Edge("generate_image"))
            \/ \E e \in ImageErrors :
                 ImageStageDone(i, GenerateImageErrorUpdate(handlers[i].state, e), Edge("generate_image"))
    /\ response' = NoResponse
    /\ UNCHANGED <<env, requests, pipeline_runs, status_queries, status_checks>>

\* generate_hashtags returns: the graph ends, execute_agentic_task returns and
\* the handler evaluates payment_instances[job_id].complete_payment(...), which
\* raises KeyError when the entry is gone and is awaited otherwise
GenerateHashtags(i) ==
    /\ handlers[i].pc = "generate_hashtags"
    /\ \/ \E package \in Packages :
            IF handlers[i].job \in payment_instances
            THEN StageDone(i, GenerateHashtagsUpdate(handlers[i].state, package), "complete_payment")
            ELSE HandleException(i,
                    Merge(handlers[i].state, GenerateHashtagsUpdate(handlers[i].state, package)),
                    KeyError)
       \/ HandleException(i, handlers[i].state, LlmError)
    /\ response' = NoResponse
    /\ UNCHANGED <<env, requests, pipeline_runs, status_queries, status_checks>>

\* complete_payment returned: the job is completed with its result, the
\* monitor is stopped and the Payment object dropped if still registered
CompletePaymentReturns(i) ==
    LET j == handlers[i].job IN
    /\ handlers[i].pc = "complete_payment"
    /\ jobs' = [jobs EXCEPT ![j] = CompletedRecord(@, ServiceResult(handlers[i].state))]
    /\ payment_instances' = payment_instances \ {j}
    /\ monitoring' = monitoring \ {j}
    /\ handlers' = [handlers EXCEPT ![i].pc = "completed"]
    /\ response' = NoResponse
    /\ UNCHANGED <<env, requests, pipeline_runs, status_queries, status_checks>>

\* complete_payment raised
CompletePaymentFails(i) ==
    /\ handlers[i].pc = "complete_payment"
    /\ HandleException(i, handlers[i].state, PaymentError)
    /\ response' = NoResponse
    /\ UNCHANGED <<env, requests, pipeline_runs, status_queries, status_checks>>

-----------------------------------------------------------------------------
(* get_status *)

\* the job_id is a uuid4 that a client learns only from the 200 response of
\* start_job: GET /status names an existing job only after that response
Disclosed(j) == requests[j].pc = "returned"

StatusResponse(j, job) ==
    [endpoint |-> "status", job_id |-> j, status_code |-> 200,
     status |-> job.status, payment_status |-> job.payment_status,
     result |-> IF job.result.kind = "ServiceResult" THEN job.result.json_dict ELSE NoneValue]

\* GetStatusNotFound that asks the provider before answering
GetStatusNotFound_Checks(j) ==
    /\ j \notin DOMAIN jobs
    /\ status_checks < MaxQueries
    /\ status_checks' = status_checks + 1
    /\ response' = [endpoint |-> "status", job_id |-> j, status_code |-> 404,
                    detail |-> "Job not found"]
    /\ UNCHANGED <<env, jobs, payment_instances, monitoring, requests, handlers,
                   pipeline_runs, status_queries>>

\* GET /status for an unknown job_id
GetStatusNotFound(j) ==
    /\ j \notin DOMAIN jobs
    /\ response' = [endpoint |-> "status", job_id |-> j, status_code |-> 404,
                    detail |-> "Job not found"]
    /\ UNCHANGED <<env, jobs, payment_instances, monitoring, requests, handlers,
                   pipeline_runs, status_queries, status_checks>>

\* GET /status for a job without a registered Payment object: answered from the record
GetStatusStored(j) ==
    /\ j \in DOMAIN jobs
    /\ Disclosed(j)
    /\ j \notin payment_instances
    /\ response' = StatusResponse(j, jobs[j])
    /\ UNCHANGED <<env, jobs, payment_instances, monitoring, requests, handlers,
                   pipeline_runs, status_queries, status_checks>>

\* GetStatusCheck without the test `job_id in payment_instances`
GetStatusCheck_NoGuard(j) ==
    /\ j \in DOMAIN jobs
    /\ Disclosed(j)
    /\ status_checks < MaxQueries
    /\ status_checks' = status_checks + 1
    /\ status_queries' = Append(status_queries, j)
    /\ response' = NoResponse
    /\ UNCHANGED <<env, jobs, payment_instances, monitoring, requests, handlers, pipeline_runs>>

\* GET /status for a job with a registered Payment object: check_payment_status is awaited
GetStatusCheck(j) ==
    /\ j \in DOMAIN jobs
    /\ Disclosed(j)
    /\ j \in payment_instances
    /\ status_checks < MaxQueries
    /\ status_checks' = status_checks + 1
    /\ status_queries' = Append(status_queries, j)
    /\ response' = NoResponse
    /\ UNCHANGED <<env, jobs, payment_instances, monitoring, requests, handlers, pipeline_runs>>

\* the sequence without its q-th element
Remove(seq, q) == [k \in 1..(Len(seq) - 1) |-> IF k < q THEN seq[k] ELSE seq[k + 1]]

\* job["payment_status"] after check_payment_status returned `status`
CheckedRecord(job, status) == [job EXCEPT !.payment_status = status]

\* CheckFailedRecord that also marks the job failed
CheckFailedRecord_FailsJob(job, error) ==
    [job EXCEPT !.payment_status = IF error = "ValueError" THEN "unknown" ELSE "error",
                !.status = "failed"]

\* job["payment_status"] after check_payment_status raised
CheckFailedRecord(job, error) ==
    [job EXCEPT !.payment_status = IF error = "ValueError" THEN "unknown" ELSE "error"]

\* the response of a query that made the live check, with the exception the
\* step caught and logged (None when check_payment_status returned)
CheckedResponse(j, job, caught) == ("caught" :> caught) @@ StatusResponse(j, job)

\* check_payment_status returned or raised: payment_status is written to the
\* record taken before the await, and the response is built from that record
GetStatusReturn(q) ==
    LET j == status_queries[q] IN
    /\ \/ \E status \in ProviderStatuses :
            /\ jobs' = [jobs EXCEPT ![j] = CheckedRecord(@, status)]
            /\ response' = CheckedResponse(j, jobs'[j], None)
       \/ \E error \in CheckErrors :
            /\ jobs' = [jobs EXCEPT ![j] = CheckFailedRecord(@, error)]
            /\ response' = CheckedResponse(j, jobs'[j], error)
    /\ status_queries' = Remove(status_queries, q)
    /\ UNCHANGED <<env, payment_instances, monitoring, requests, handlers, pipeline_runs,
                   status_checks>>

-----------------------------------------------------------------------------

Next ==
    \/ \E r \in JobIds, input \in Inputs : StartJobCall(r, input) /\ UNCHANGED toolVars
    \/ \E r \in JobIds : StartJobStore(r) /\ UNCHANGED toolVars
    \/ \E r \in JobIds : StartJobPaymentRequestFails(r) /\ UNCHANGED toolVars
    \/ \E r \in JobIds : StartJobReturn(r) /\ UNCHANGED toolVars
    \/ \E r \in JobIds : StartJobMonitoringFails(r) /\ UNCHANGED toolVars
    \/ \E j \in JobIds : PaymentCallback(j) /\ UNCHANGED toolVars
    \/ \E i \in 1..Len(handlers) : FetchSnippets(i) /\ UNCHANGED toolVars
    \/ \E i \in 1..Len(handlers) : SynthesizeResearch(i) /\ UNCHANGED toolVars
    \/ \E i \in 1..Len(handlers) : GenerateCopy(i) /\ UNCHANGED toolVars
    \/ \E i \in 1..Len(handlers) : GenerateImage(i) /\ UNCHANGED toolVars
    \/ \E i \in 1..Len(handlers) : GenerateHashtags(i) /\ UNCHANGED toolVars
    \/ \E i \in 1..Len(handlers) : CompletePaymentReturns(i) /\ UNCHANGED toolVars
    \/ \E i \in 1..Len(handlers) : CompletePaymentFails(i) /\ UNCHANGED toolVars
    \/ \E j \in JobIds : GetStatusNotFound(j) /\ UNCHANGED toolVars
    \/ \E j \in JobIds : GetStatusStored(j) /\ UNCHANGED toolVars
    \/ \E j \in JobIds : GetStatusCheck(j) /\ UNCHANGED toolVars
    \/ \E q \in 1..Len(status_queries) : GetStatusReturn(q) /\ UNCHANGED toolVars

Spec == Init /\ [][Next]_vars

\* a step of the i-th invocation of handle_payment_status: the external call
\* it awaits returns or raises
HandlerStep(i) ==
    /\ i \in 1..Len(handlers)
    /\ \/ FetchSnippets(i)
       \/ SynthesizeResearch(i)
       \/ GenerateCopy(i)
       \/ GenerateImage(i)
       \/ GenerateHashtags(i)
       \/ CompletePaymentReturns(i)
       \/ CompletePaymentFails(i)
    /\ UNCHANGED toolVars

\* The life of jobs from creation to their end, with the status queries that
\* are answered from the record.  The live provider check of get_status is
\* left to Spec: it writes payment_status only and takes no part in a run.
NextLive ==
    \/ \E r \in JobIds, input \in Inputs : StartJobCall(r, input) /\ UNCHANGED toolVars
    \/ \E r \in JobIds : StartJobStore(r) /\ UNCHANGED toolVars
    \/ \E r \in JobIds : StartJobPaymentRequestFails(r) /\ UNCHANGED toolVars
    \/ \E r \in JobIds : StartJobReturn(r) /\ UNCHANGED toolVars
    \/ \E r \in JobIds : StartJobMonitoringFails(r) /\ UNCHANGED toolVars
    \/ \E j \in JobIds : PaymentCallback(j) /\ UNCHANGED toolVars
    \/ \E i \in 1..MaxCallbacks : HandlerStep(i)
    \/ \E j \in JobIds : GetStatusStored(j) /\ UNCHANGED toolVars

\* every call awaited by a running invocation eventually returns or raises
\* (the search client's retries and the image poll loop are bounded), and the
\* event loop resumes the coroutine
SpecLive ==
    Init /\ [][NextLive]_vars /\ \A i \in 1..MaxCallbacks : WF_vars(HandlerStep(i))

-----------------------------------------------------------------------------
(* SerpClient._request_with_retry: tools/serp_client.py *)

\* delay = 1.0: the first backoff, in seconds
BaseDelay == 1

\* what _perform_request raises: raise_for_status, or an error payload
RequestErrors ==
    { [type |-> "HTTPStatusError", msg |-> "503 Service Unavailable"],
      [type |-> "SerpApiError", msg |-> "Invalid API key"] }
\* what _perform_request returns
Payloads == { [organic_results |-> <<"r1">>] }

\* delay *= 2 with the delay kept constant
NextDelay_Constant(delay) == delay

\* delay *= 2
NextDelay(delay) == delay * 2

\* the for loop with one more round than range(1, retries + 1)
MoreAttempts_OneExtra(attempt, retries) == attempt <= retries

\* for attempt in range(1, self.retries + 1): there is a next round
MoreAttempts(attempt, retries) == attempt < retries

\* raise SerpApiError(f"... after {self.retries} attempts") from last_error
RetriesExhausted(retries, last_error) ==
    [type |-> "SerpApiError", msg |-> <<"SerpAPI request failed after", retries, "attempts">>,
     cause |-> last_error]

\* the call is entered: delay and last_error are initialised and the first
\* round of the loop awaits _perform_request
RequestWithRetry(retries) ==
    [pc |-> "perform_request", retries |-> retries, attempt |-> 1,
     delay |-> BaseDelay, last_error |-> NoException,
     calls |-> 1, failures |-> <<>>, sleeps |-> <<>>,
     result |-> NoneValue, raised |-> NoException]

InitRetry ==
    /\ env = "ok"
    /\ jobs = EmptyDict
    /\ payment_instances = {}
    /\ monitoring = {}
    /\ requests = [r \in JobIds |-> [pc |-> "idle", input |-> NoneValue]]
    /\ handlers = <<>>
    /\ pipeline_runs = [j \in JobIds |-> 0]
    /\ status_queries = <<>>
    /\ status_checks = 0
    /\ response = NoResponse
    /\ retry_call \in { RequestWithRetry(retries) : retries \in 1..MaxRetries }
    /\ image_call = NoCall
    /\ json_call = NoCall
    /\ normalize_call = NoCall

\* _perform_request returned: the payload is returned at once
PerformRequestReturns(payload) ==
    /\ retry_call.pc = "perform_request"
    /\ retry_call' = [retry_call EXCEPT !.pc = "returned", !.result = payload]
    /\ UNCHANGED <<appVars, image_call, json_call, normalize_call>>

\* _perform_request raised: the exception is kept as last_error and
\* asyncio.sleep(delay) is awaited
PerformRequestRaises(exc) ==
    /\ retry_call.pc = "perform_request"
    /\ retry_call' = [retry_call EXCEPT !.pc = "sleep",
                                        !.last_error = exc,
                                        !.failures = Append(@, exc),
                                        !.sleeps = Append(@, retry_call.delay)]
    /\ UNCHANGED <<appVars, image_call, json_call, normalize_call>>

\* the sleep ended: the delay is doubled, and either the next round awaits
\* _perform_request or the loop is over and SerpApiError is raised
SleepDone ==
    /\ retry_call.pc = "sleep"
    /\ IF MoreAttempts(retry_call.attempt, retry_call.retries)
       THEN retry_call' = [retry_call EXCEPT !.pc = "perform_request",
                                             !.delay = NextDelay(@),
                                             !.attempt = @ + 1,
                                             !.calls = @ + 1]
       ELSE retry_call' = [retry_call EXCEPT !.pc = "raised",
                                             !.delay = NextDelay(@),
                                             !.raised = RetriesExhausted(retry_call.retries,
                                                                         retry_call.last_error)]
    /\ UNCHANGED <<appVars, image_call, json_call, normalize_call>>

NextRetry ==
    \/ \E payload \in Payloads : PerformRequestReturns(payload)
    \/ \E exc \in RequestErrors : PerformRequestRaises(exc)
    \/ SleepDone

SpecRetry == InitRetry /\ [][NextRetry]_vars

-----------------------------------------------------------------------------
(* generate_image_with_masumi: tools/masumi_image_client.py *)

\* the environment variables the helper reads
ImageEnvStates == {"ok", "image_agent_base_url_missing", "payment_service_url_missing",
                   "payment_api_key_missing"}

MasumiImageClientError(msg) == [type |-> "MasumiImageClientError", msg |-> msg]
\* what httpx raises when the request itself fails
HttpxError == [type |-> "httpx.ConnectTimeout", msg |-> "timed out"]

\* the fields of the /start_job response that trigger_purchase reads
PurchaseFields ==
    {"identifierFromPurchaser", "blockchainIdentifier", "sellerVKey", "agentIdentifier",
     "payByTime", "submitResultTime", "unlockTime", "externalDisputeUnlockTime", "inputHash"}
FullStartData == [k \in PurchaseFields \cup {"job_id"} |-> IF k = "job_id" THEN "img-1" ELSE "v"]
Restrict(d, keys) == [k \in keys |-> d[k]]

\* responses of the image agent to POST /start_job
StartResponses ==
    { [status_code |-> 200, data |-> FullStartData],
      [status_code |-> 200, data |-> Restrict(FullStartData, PurchaseFields)],
      [status_code |-> 200, data |-> Restrict(FullStartData, DOMAIN FullStartData \ {"sellerVKey"})],
      [status_code |-> 500, data |-> EmptyDict] }
\* responses of the payment service to POST /purchase
PurchaseResponses == { [status_code |-> 200], [status_code |-> 402] }
\* responses of the image agent to GET /status
PollResponses ==
    { [status_code |-> 200, data |-> ("status" :> "completed") @@ ("result" :> "QmHash")],
      [status_code |-> 200, data |-> ("status" :> "completed")],
      [status_code |-> 200, data |-> ("status" :> "failed")],
      [status_code |-> 200, data |-> ("status" :> "running")],
      [status_code |-> 200, data |-> ("status" :> "awaiting_payment")],
      [status_code |-> 503, data |-> EmptyDict] }

\* start_image_job raises although the response lacks only job_id
StartImageJobRaises_IgnoresJobId(resp) == resp.status_code >= 400

\* start_image_job: resp.status_code >= 400, or "job_id" not in data
StartImageJobRaises(resp) ==
    resp.status_code >= 400 \/ "job_id" \notin DOMAIN resp.data

\* trigger_purchase: missing_fields (either spelling of the two aliased fields counts)
MissingFields(start_job_response) ==
    { k \in PurchaseFields :
        /\ k \notin DOMAIN start_job_response
        /\ ~(k = "identifierFromPurchaser" /\ "identifier_from_purchaser" \in DOMAIN start_job_response)
        /\ ~(k = "inputHash" /\ "input_hash" \in DOMAIN start_job_response) }

\* the poll loop with one more round than range(1, max_polls + 1)
MorePolls_OneExtra(attempt, max_polls) == attempt <= max_polls

\* wait_for_image_result: for attempt in range(1, max_polls + 1): there is a next round
MorePolls(attempt, max_polls) == attempt < max_polls

\* generate_image_with_masumi: the dict returned from the final /status payload
ImageResult(job_id, status_resp) ==
    LET ipfs_hash == Get(status_resp, "result", None) IN
    [job_id |-> job_id,
     ipfs_hash |-> ipfs_hash,
     image_ipfs_url |-> IF ipfs_hash # None THEN <<"https://ipfs.io/ipfs", "/", ipfs_hash>> ELSE <<>>,
     raw_status |-> status_resp]

\* the call is entered
GenerateImageWithMasumi(image_env, max_polls) ==
    [pc |-> "called", env |-> image_env, max_polls |-> max_polls,
     http |-> <<>>, start_resp |-> EmptyDict, purchased |-> FALSE,
     attempt |-> 0, polled |-> <<>>,
     result |-> NoneValue, raised |-> NoException, raised_in |-> None]

InitImage ==
    /\ env = "ok"
    /\ jobs = EmptyDict
    /\ payment_instances = {}
    /\ monitoring = {}
    /\ requests = [r \in JobIds |-> [pc |-> "idle", input |-> NoneValue]]
    /\ handlers = <<>>
    /\ pipeline_runs = [j \in JobIds |-> 0]
    /\ status_queries = <<>>
    /\ status_checks = 0
    /\ response = NoResponse
    /\ retry_call = NoCall
    /\ image_call \in { GenerateImageWithMasumi(e, n) : e \in ImageEnvStates, n \in 1..MaxPolls }
    /\ json_call = NoCall
    /\ normalize_call = NoCall

\* the helper raises `e` out of `step`; nothing after it runs
ImageRaise(step, e) ==
    image_call' = [image_call EXCEPT !.pc = "raised", !.raised = e, !.raised_in = step]

\* start_image_job up to its POST /start_job
StartImageJob ==
    /\ image_call.pc = "called"
    /\ IF image_call.env = "image_agent_base_url_missing"
       THEN ImageRaise("start_image_job",
                       MasumiImageClientError("Missing required environment variable: IMAGE_AGENT_BASE_URL"))
       ELSE image_call' = [image_call EXCEPT !.pc = "start_image_job",
                                             !.http = Append(@, "start_job")]
    /\ UNCHANGED <<appVars, retry_call, json_call, normalize_call>>

\* trigger_purchase up to its POST /purchase
TriggerPurchase(start_resp) ==
    IF image_call.env = "payment_service_url_missing"
    THEN ImageRaise("trigger_purchase",
                    MasumiImageClientError("IMAGE_PAYMENT_SERVICE_URL or PAYMENT_SERVICE_URL must be set"))
    ELSE IF image_call.env = "payment_api_key_missing"
    THEN ImageRaise("trigger_purchase",
                    MasumiImageClientError("IMAGE_PAYMENT_API_KEY or PAYMENT_API_KEY must be set for image purchase"))
    ELSE IF MissingFields(start_resp) # {}
    THEN ImageRaise("trigger_purchase",
                    MasumiImageClientError("Image /start_job response missing fields required for /purchase"))
    ELSE image_call' = [image_call EXCEPT !.pc = "trigger_purchase",
                                          !.start_resp = start_resp,
                                          !.http = Append(@, "purchase")]

\* POST /start_job answered: start_image_job raises or returns the data, and
\* trigger_purchase runs up to its own request
StartImageJobResponds(resp) ==
    /\ image_call.pc = "start_image_job"
    /\ IF StartImageJobRaises(resp)
       THEN ImageRaise("start_image_job",
                       MasumiImageClientError(IF resp.status_code >= 400
                                              THEN "Image /start_job failed"
                                              ELSE "Image /start_job response missing job_id"))
       ELSE TriggerPurchase(resp.data)
    /\ UNCHANGED <<appVars, retry_call, json_call, normalize_call>>

\* POST /start_job failed in httpx
StartImageJobFails ==
    /\ image_call.pc = "start_image_job"
    /\ ImageRaise("start_image_job", HttpxError)
    /\ UNCHANGED <<appVars, retry_call, json_call, normalize_call>>

\* POST /purchase answered: trigger_purchase raises, or returns and
\* wait_for_image_result sends its first GET /status
PurchaseResponds(resp) ==
    /\ image_call.pc = "trigger_purchase"
    /\ IF resp.status_code >= 400
       THEN ImageRaise("trigger_purchase", MasumiImageClientError("Payment /purchase failed"))
       ELSE image_call' = [image_call EXCEPT !.pc = "poll",
                                             !.purchased = TRUE,
                                             !.attempt = 1,
                                             !.http = Append(@, "status")]
    /\ UNCHANGED <<appVars, retry_call, json_call, normalize_call>>

\* POST /purchase failed in httpx
PurchaseFails ==
    /\ image_call.pc = "trigger_purchase"
    /\ ImageRaise("trigger_purchase", HttpxError)
    /\ UNCHANGED <<appVars, retry_call, json_call, normalize_call>>

\* GET /status answered
PollResponds(resp) ==
    /\ image_call.pc = "poll"
    /\ IF resp.status_code >= 400
       THEN image_call' = [image_call EXCEPT !.pc = "raised",
                                             !.raised = MasumiImageClientError("Image /status failed"),
                                             !.raised_in = "wait_for_image_result",
                                             !.polled = Append(@, resp)]
       ELSE IF Get(resp.data, "status", None) = "completed"
       THEN image_call' = [image_call EXCEPT !.pc = "returned",
                                             !.polled = Append(@, resp),
                                             !.result = ImageResult(Get(image_call.start_resp, "job_id", None),
                                                                    resp.data)]
       ELSE IF Get(resp.data, "status", None) = "failed"
       THEN image_call' = [image_call EXCEPT !.pc = "raised",
                                             !.raised = MasumiImageClientError("Masumi image job failed"),
                                             !.raised_in = "wait_for_image_result",
                                             !.polled = Append(@, resp)]
       ELSE image_call' = [image_call EXCEPT !.pc = "poll_sleep", !.polled = Append(@, resp)]
    /\ UNCHANGED <<appVars, retry_call, json_call, normalize_call>>

\* GET /status failed in httpx
PollFails ==
    /\ image_call.pc = "poll"
    /\ ImageRaise("wait_for_image_result", HttpxError)
    /\ UNCHANGED <<appVars, retry_call, json_call, normalize_call>>

\* asyncio.sleep(poll_interval_seconds) ended: the next round polls, or the
\* loop is over and the poll-limit error is raised
PollSleepDone ==
    /\ image_call.pc = "poll_sleep"
    /\ IF MorePolls(image_call.attempt, image_call.max_polls)
       THEN image_call' = [image_call EXCEPT !.pc = "poll",
                                             !.attempt = @ + 1,
                                             !.http = Append(@, "status")]
       ELSE ImageRaise("wait_for_image_result",
                       MasumiImageClientError("Masumi image job did not complete within poll limit"))
    /\ UNCHANGED <<appVars, retry_call, json_call, normalize_call>>

NextImage ==
    \/ StartImageJob
    \/ \E resp \in StartResponses : StartImageJobResponds(resp)
    \/ StartImageJobFails
    \/ \E resp \in PurchaseResponses : PurchaseResponds(resp)
    \/ PurchaseFails
    \/ \E resp \in PollResponses : PollResponds(resp)
    \/ PollFails
    \/ PollSleepDone

SpecImage == InitImage /\ [][NextImage]_vars

\* every awaited HTTP request (httpx timeout) and every sleep ends
SpecImageLive == SpecImage /\ WF_vars(NextImage)

-----------------------------------------------------------------------------
(* extract_json: agents/utils.py *)

\* longest payload handed to extract_json
MaxText == 4

\* The payload is a string of lexical units: the braces, a member name with
\* its colon ("k"), a scalar literal ("v"), a run of '[' nested deeper than
\* the interpreter's recursion limit ("deep"), a character that starts no
\* JSON value ("a") and white space (" ").
JsonTokens == { "{", "}", "k", "v", "deep", "a", " " }
Texts == UNION { [1..n -> JsonTokens] : n \in 0..MaxText }
\* the stage's default structure, e.g. {"insights": [], "summary": ""}
Fallback == [type |-> "dict", items |-> <<[type |-> "default", items |-> <<>>]>>]

JsonScalar == [type |-> "scalar", items |-> <<>>]
JsonDict(items) == [type |-> "dict", items |-> items]
\* isinstance(data, dict)
IsDict(data) == data.type = "dict"

\* outcomes of the JSON scanner: a value and the position after it, or the
\* exception it raised
Scanned(value, next) == [exc |-> None, value |-> value, next |-> next]
ScanRaises(exc) == [exc |-> exc, value |-> NoneValue, next |-> 0]

\* the scanner of json.loads, left to right from position i: a value that is
\* nested too deep raises RecursionError where the scanner meets it, anything
\* that is not a value raises JSONDecodeError
RECURSIVE ScanOnce(_, _)
ScanOnce(s, i) ==
    IF i > Len(s) THEN ScanRaises("JSONDecodeError")
    ELSE CASE s[i] = "v" -> Scanned(JsonScalar, i + 1)
           [] s[i] = "deep" -> ScanRaises("RecursionError")
           [] s[i] = "{" ->
                IF i + 1 > Len(s) THEN ScanRaises("JSONDecodeError")
                ELSE IF s[i + 1] = "}" THEN Scanned(JsonDict(<<>>), i + 2)
                ELSE IF s[i + 1] = "k"
                     THEN LET member == ScanOnce(s, i + 2) IN
                          IF member.exc # None THEN member
                          ELSE IF member.next <= Len(s) /\ s[member.next] = "}"
                               THEN Scanned(JsonDict(<<member.value>>), member.next + 1)
                               ELSE ScanRaises("JSONDecodeError")
                     ELSE ScanRaises("JSONDecodeError")
           [] OTHER -> ScanRaises("JSONDecodeError")

\* json.loads(text): white space between lexical units is skipped, one value
\* is scanned, and anything after it raises JSONDecodeError ("Extra data")
json_loads(text) ==
    LET s == SelectSeq(text, LAMBDA t : t # " ")
        first == ScanOnce(s, 1)
    IN IF first.exc # None THEN first
       ELSE IF first.next = Len(s) + 1 THEN first
       ELSE ScanRaises("JSONDecodeError")

\* str.strip()
StripPayload(text) ==
    LET inked == { i \in 1..Len(text) : text[i] # " " } IN
    IF inked = {} THEN <<>>
    ELSE SubSeq(text, CHOOSE i \in inked : \A k \in inked : i <= k,
                      CHOOSE i \in inked : \A k \in inked : i >= k)

\* JSON_CANDIDATE.search(payload): r"\{.*\}" with DOTALL matches from the
\* first '{' to the last '}' after it; None when there is no such pair
JSON_CANDIDATE(payload) ==
    LET opens == { i \in 1..Len(payload) : payload[i] = "{" }
        closes == { i \in 1..Len(payload) : payload[i] = "}" }
    IN IF opens = {} \/ closes = {} THEN NoneValue
       ELSE LET first == CHOOSE i \in opens : \A k \in opens : i <= k
                last == CHOOSE i \in closes : \A k \in closes : i >= k
            IN IF first < last THEN SubSeq(payload, first, last) ELSE NoneValue

JsonReturns(data) == [pc |-> "returned", result |-> data, raised |-> None]
JsonRaises(exc) == [pc |-> "raised", result |-> NoneValue, raised |-> exc]

\* extract_json(payload, fallback): only json.JSONDecodeError is caught around
\* the two json.loads calls, any other exception leaves the function
extract_json(text, fallback) ==
    LET payload == StripPayload(text)
        whole == json_loads(payload)
        match == JSON_CANDIDATE(payload)
    IN IF payload = <<>> THEN JsonReturns(fallback)
       ELSE IF whole.exc \notin { None, "JSONDecodeError" } THEN JsonRaises(whole.exc)
       ELSE IF whole.exc = None /\ IsDict(whole.value) THEN JsonReturns(whole.value)
       ELSE IF match = NoneValue THEN JsonReturns(fallback)
       ELSE LET data == json_loads(match) IN
            IF data.exc = "JSONDecodeError" THEN JsonReturns(fallback)
            ELSE IF data.exc # None THEN JsonRaises(data.exc)
            ELSE IF IsDict(data.value) THEN JsonReturns(data.value)
            ELSE JsonReturns(fallback)

InitJson ==
    /\ env = "ok"
    /\ jobs = EmptyDict
    /\ payment_instances = {}
    /\ monitoring = {}
    /\ requests = [r \in JobIds |-> [pc |-> "idle", input |-> NoneValue]]
    /\ handlers = <<>>
    /\ pipeline_runs = [j \in JobIds |-> 0]
    /\ status_queries = <<>>
    /\ status_checks = 0
    /\ response = NoResponse
    /\ retry_call = NoCall
    /\ image_call = NoCall
    /\ json_call \in { [pc |-> "called", text |-> text, fallback |-> Fallback] : text \in Texts }
    /\ normalize_call = NoCall

\* the call runs to its end
ExtractJson ==
    /\ json_call.pc = "called"
    /\ json_call' = extract_json(json_call.text, json_call.fallback)
                        @@ [text |-> json_call.text, fallback |-> json_call.fallback]
    /\ UNCHANGED <<appVars, retry_call, image_call, normalize_call>>

NextJson == ExtractJson

SpecJson == InitJson /\ [][NextJson]_vars

-----------------------------------------------------------------------------
(* SerpClient._normalize_results: tools/serp_client.py *)

\* longest list of entries in a payload, largest num_results
MaxEntries == 3
MaxResults == 3

\* Python's `a or b` on strings and None
Or(a, b) == IF a \in {None, ""} THEN b ELSE a

\* entries as SerpAPI sends them: the first organic result may name its
\* source, related questions carry question and answer instead of title and
\* snippet
OrganicEntry(k, named) ==
    ("title" :> ("organic " \o ToString(k))) @@ ("link" :> "https://o")
    @@ ("snippet" :> "text")
    @@ (IF named /\ k = 1 THEN ("source" :> "example.com") ELSE EmptyDict)
NewsEntry(k) ==
    ("title" :> ("news " \o ToString(k))) @@ ("source" :> "Reuters")
    @@ ("description" :> "text")
RelatedQuestion(k) ==
    ("question" :> ("question " \o ToString(k))) @@ ("answer" :> "")

\* a payload with the given numbers of entries; -1 leaves the key out
SerpPayload(organic, news, related, named) ==
    (IF organic < 0 THEN EmptyDict
     ELSE ("organic_results" :> [k \in 1..organic |-> OrganicEntry(k, named)]))
    @@ (IF news < 0 THEN EmptyDict
        ELSE ("news_results" :> [k \in 1..news |-> NewsEntry(k)]))
    @@ (IF related < 0 THEN EmptyDict
        ELSE ("related_questions" :> [k \in 1..related |-> RelatedQuestion(k)]))
SerpPayloads ==
    { SerpPayload(organic, news, related, named) :
        organic \in -1..MaxEntries, news \in -1..MaxEntries, related \in -1..MaxEntries,
        named \in BOOLEAN }

\* seq[:n] for n >= 0
Slice(seq, n) == SubSeq(seq, 1, IF n < Len(seq) THEN n ELSE Len(seq))

\* _push(item, source): the snippet appended to `combined`
Push(item, source) ==
    [title |-> Or(Get(item, "title", None), Or(Get(item, "question", None), "Untitled")),
     link |-> Or(Get(item, "link", None), Get(item, "source", None)),
     snippet |-> Or(Get(item, "snippet", None),
                    Or(Get(item, "answer", None), Or(Get(item, "description", None), ""))),
     source |-> source]

\* the snippet appended when `combined` is empty
Placeholder(query) ==
    [title |-> "No public snippets for " \o query, link |-> "",
     snippet |-> "SerpAPI returned no organic results.", source |-> "serpapi"]

\* the three loops of _normalize_results
Combined(payload, num_results) ==
    LET organic == Get(payload, "organic_results", <<>>)
        news == Get(payload, "news_results", <<>>)
        people_also_ask == Get(payload, "related_questions", <<>>)
        o == Slice(organic, num_results)
        n == Slice(news, num_results)
        q == Slice(people_also_ask, 2)
    IN [k \in 1..Len(o) |-> Push(o[k], Or(Get(o[k], "source", None), "organic"))]
       \o [k \in 1..Len(n) |-> Push(n[k], Or(Get(n[k], "source", None), "news"))]
       \o [k \in 1..Len(q) |-> Push(q[k], "related_question")]

\* NormalizeResults returning `combined` without the final slice
NormalizeResults_NoFinalSlice(payload, query, num_results) ==
    LET combined == Combined(payload, num_results) IN
    IF combined = <<>> THEN <<Placeholder(query)>> ELSE combined

\* SerpClient._normalize_results(payload, query) with self.num_results
NormalizeResults(payload, query, num_results) ==
    LET combined == Combined(payload, num_results) IN
    Slice(IF combined = <<>> THEN <<Placeholder(query)>> ELSE combined, num_results)

InitNormalize ==
    /\ env = "ok"
    /\ jobs = EmptyDict
    /\ payment_instances = {}
    /\ monitoring = {}
    /\ requests = [r \in JobIds |-> [pc |-> "idle", input |-> NoneValue]]
    /\ handlers = <<>>
    /\ pipeline_runs = [j \in JobIds |-> 0]
    /\ status_queries = <<>>
    /\ status_checks = 0
    /\ response = NoResponse
    /\ retry_call = NoCall
    /\ image_call = NoCall
    /\ json_call = NoCall
    /\ normalize_call \in { [pc |-> "called", payload |-> payload, query |-> "topic",
                             num_results |-> n, result |-> <<>>] :
                            payload \in SerpPayloads, n \in 1..MaxResults }

\* the call runs to its end
NormalizeCall ==
    /\ normalize_call.pc = "called"
    /\ normalize_call' = [normalize_call EXCEPT
            !.pc = "returned",
            !.result = NormalizeResults(normalize_call.payload, normalize_call.query,
                                        normalize_call.num_results)]
    /\ UNCHANGED <<appVars, retry_call, image_call, json_call>>

NextNormalize == NormalizeCall

SpecNormalize == InitNormalize /\ [][NextNormalize]_vars

-----------------------------------------------------------------------------
(* Properties *)

\* the invocations of handle_payment_status
Handlers == 1..Len(handlers)
HandlersOf(j) == { i \in Handlers : handlers[i].job = j }
Finished(i) == handlers[i].pc \in {"completed", "failed"}
HasResult(job) == job.result # NoResult
HasError(job) == job.error # None
\* the update of a failed generate_image is in the context of invocation i
ImageFailed(i) == "image_error" \in DOMAIN Get(handlers[i].state, "metadata", EmptyDict)
\* the graph of invocation i ran to its end
GraphEnded(i) == "hashtag_package" \in DOMAIN handlers[i].state

\* C1: as long as handle_payment_status has not been invoked for a job, the
\* pipeline has not been started for it and, whatever start_job and get_status
\* calls were made, a stored job is still awaiting_payment.
C1_PaymentGating ==
    \A j \in JobIds :
        HandlersOf(j) = {} =>
            /\ pipeline_runs[j] = 0
            /\ j \in DOMAIN jobs => jobs[j].status = "awaiting_payment"

\* C1 witness: start_job has returned for a job, a status query with a live
\* provider check has just answered for it, and no callback was delivered
C1_Witness ==
    \E j \in DOMAIN jobs :
        /\ HandlersOf(j) = {}
        /\ requests[j].pc = "returned"
        /\ status_checks > 0
        /\ response.endpoint = "status" /\ response.status_code = 200 /\ response.job_id = j

StatusRank(status) ==
    CASE status = "awaiting_payment" -> 0
      [] status = "running" -> 1
      [] OTHER -> 2

\* C2: in every step, for every job, the status does not move to an earlier
\* state of awaiting_payment -> running -> {completed, failed}, and a status
\* that is completed or failed does not change.
C2_StatusMonotone ==
    [][\A j \in DOMAIN jobs :
          /\ StatusRank(jobs'[j].status) >= StatusRank(jobs[j].status)
          /\ jobs[j].status \in {"completed", "failed"} => jobs'[j].status = jobs[j].status]_vars

\* C3: a job for which handle_payment_status was invoked, however many times,
\* has had the pipeline executed exactly once.
C3_PipelineOnce ==
    \A j \in JobIds : HandlersOf(j) # {} => pipeline_runs[j] = 1

\* C4: for every job, result and error are never both present, and both are
\* absent while the status is awaiting_payment or running.
C4_ResultErrorExclusive ==
    \A j \in DOMAIN jobs :
        /\ ~(HasResult(jobs[j]) /\ HasError(jobs[j]))
        /\ jobs[j].status \in {"awaiting_payment", "running"} =>
                ~HasResult(jobs[j]) /\ ~HasError(jobs[j])

\* C5: a job has an entry in payment_instances if and only if its status is
\* awaiting_payment.
C5_MonitorIffAwaiting ==
    \A j \in DOMAIN jobs :
        (j \in payment_instances) <=> (jobs[j].status = "awaiting_payment")

\* C6: once an invocation of handle_payment_status has caught an exception,
\* the job is failed, its error is the description of an exception caught
\* for that job, and no result is stored for it.
C6_FailureRecorded ==
    \A i \in Handlers :
        handlers[i].pc = "failed" =>
            /\ jobs[handlers[i].job].status = "failed"
            /\ \E k \in HandlersOf(handlers[i].job) :
                    jobs[handlers[i].job].error = handlers[k].raised.msg
            /\ ~HasResult(jobs[handlers[i].job])

\* C7: a run whose generate_image failed and whose graph ran to its end has
\* post and hashtag_package in its final context, no image hash or URL, and
\* image_error set.
C7_ImageFailureNonFatal ==
    \A i \in Handlers :
        (ImageFailed(i) /\ GraphEnded(i)) =>
            /\ "post" \in DOMAIN handlers[i].state
            /\ "image_ipfs_hash" \notin DOMAIN handlers[i].state
            /\ "image_ipfs_url" \notin DOMAIN handlers[i].state
            /\ "image_error" \in DOMAIN handlers[i].state

\* C8: a run whose generate_image failed has the failure in its context's
\* errors list, which is non-empty at the end of the run, and in its metadata
\* under image_error.
C8_ImageFailureInErrors ==
    \A i \in Handlers :
        (ImageFailed(i) /\ GraphEnded(i)) =>
            /\ "errors" \in DOMAIN handlers[i].state
            /\ Get(handlers[i].state, "errors", <<>>) # <<>>

\* C9: an invocation whose pipeline succeeded and whose complete_payment
\* raised leaves the job completed with its result stored, not failed.
C9_ReportBestEffort ==
    \A i \in Handlers :
        handlers[i].raised = PaymentError =>
            /\ jobs[handlers[i].job].status = "completed"
            /\ HasResult(jobs[handlers[i].job])

\* C10: once an invocation of handle_payment_status has ended, completed or
\* failed, the job's monitor is stopped and the job has no entry in
\* payment_instances.
C10_MonitorStopped ==
    \A i \in Handlers :
        Finished(i) =>
            /\ handlers[i].job \notin payment_instances
            /\ handlers[i].job \notin monitoring

\* C10 witness: the three ways an invocation ends have all happened: the
\* pipeline raised, the report raised, or everything succeeded
C10_Witness ==
    \E i \in Handlers :
        /\ Finished(i)
        /\ handlers[i].raised = PaymentError
        /\ \E k \in Handlers : k # i /\ handlers[k].pc = "failed" /\ handlers[k].raised = SerpApiError

\* stop_status_monitoring has been called for the job
MonitorStopped(j) == \E i \in HandlersOf(j) : Finished(i)
\* the step is a GET /status that answers 200 for job j
StatusAnswered(j) ==
    /\ response'.endpoint = "status"
    /\ response'.status_code = 200
    /\ response'.job_id = j
\* the step is a GET /status that starts its live provider check for job j
StatusCheckStarted(j) ==
    /\ Len(status_queries') = Len(status_queries) + 1
    /\ status_queries'[Len(status_queries')] = j

\* C11: in every step, for a job whose monitor has been stopped, no status
\* query starts a provider check, and a status query that is answered without
\* one pending from before returns the payment_status stored on the job.
C11_StoppedMonitorNoLiveCheck ==
    [][\A j \in DOMAIN jobs :
          MonitorStopped(j) =>
              /\ ~StatusCheckStarted(j)
              /\ (StatusAnswered(j) /\ status_queries' = status_queries) =>
                    /\ status_checks' = status_checks
                    /\ response'.payment_status = jobs[j].payment_status
                    /\ jobs' = jobs]_vars

\* C11 witness: a completed job, for which no provider check was ever made,
\* has just been answered with its stored payment_status
C11_Witness ==
    /\ response.endpoint = "status"
    /\ response.status_code = 200
    /\ status_checks = 0
    /\ MonitorStopped(response.job_id)
    /\ jobs[response.job_id].status = "completed"
    /\ response.payment_status = "completed"

\* the step belongs to a get_status call
GetStatusStep == response'.endpoint = "status" \/ status_queries' # status_queries

\* C12: every step of a status query leaves the set of jobs and, for every
\* job, its status, input_data, blockchain_identifier, result and error
\* unchanged: only payment_status may differ.
C12_StatusQueryWritesPaymentStatusOnly ==
    [][GetStatusStep =>
          /\ DOMAIN jobs' = DOMAIN jobs
          /\ \A j \in DOMAIN jobs :
                jobs'[j] = [jobs[j] EXCEPT !.payment_status = jobs'[j].payment_status]]_vars

\* C12 witness: a live check has just raised for a job that is running, and
\* the query wrote payment_status on it
C12_Witness ==
    /\ response.endpoint = "status"
    /\ response.status_code = 200
    /\ "caught" \in DOMAIN response
    /\ response.caught = "Exception"
    /\ jobs[response.job_id].status = "running"
    /\ jobs[response.job_id].payment_status = "error"

\* C13: a status query whose live provider check raised, whatever the error,
\* answers 200 with the job's stored status and has set payment_status to
\* "error".
C13_CheckErrorDegrades ==
    (/\ response.endpoint = "status"
     /\ "caught" \in DOMAIN response
     /\ response.caught # None) =>
        /\ response.status_code = 200
        /\ response.status = jobs[response.job_id].status
        /\ response.payment_status = "error"
        /\ jobs[response.job_id].payment_status = "error"

RECURSIVE Pow2(_)
Pow2(n) == IF n = 0 THEN 1 ELSE 2 * Pow2(n - 1)

\* C14: a call of _request_with_retry that returned did so after k failures,
\* k < retries, and exactly k+1 invocations of the operation, having slept
\* BaseDelay * 2^(i-1) after the i-th failure, and it returns the payload of
\* the successful invocation.
C14_RetryBackoff ==
    retry_call.pc = "returned" =>
        LET k == Len(retry_call.failures) IN
        /\ k < retry_call.retries
        /\ retry_call.calls = k + 1
        /\ retry_call.sleeps = [i \in 1..k |-> BaseDelay * Pow2(i - 1)]
        /\ retry_call.result \in Payloads

\* C14 witness: with retries = 3 the operation failed twice and then succeeded
C14_Witness ==
    /\ retry_call.pc = "returned"
    /\ retry_call.retries = 3
    /\ Len(retry_call.failures) = 2
    /\ retry_call.sleeps = <<1, 2>>

\* C15: the operation is never invoked more than retries times, and a call
\* that raised did so after exactly retries invocations, all failed, with a
\* SerpApiError whose cause is the failure of the last invocation.
C15_RetryExhausted ==
    /\ retry_call.calls <= retry_call.retries
    /\ retry_call.pc = "raised" =>
          /\ retry_call.calls = retry_call.retries
          /\ Len(retry_call.failures) = retry_call.retries
          /\ retry_call.raised.type = "SerpApiError"
          /\ retry_call.raised.cause = retry_call.failures[retry_call.retries]

\* C15 witness: three attempts failed, the last one differently from the first
C15_Witness ==
    /\ retry_call.pc = "raised"
    /\ retry_call.retries = 3
    /\ retry_call.failures[1] # retry_call.failures[3]
    /\ retry_call.raised.cause = retry_call.failures[3]

\* the GET /status requests the call has sent
StatusRequests == Len(SelectSeq(image_call.http, LAMBDA endpoint : endpoint = "status"))
\* the poll was answered without an HTTP error, neither completed nor failed
StillPending(resp) ==
    resp.status_code < 400 /\ Get(resp.data, "status", None) \notin {"completed", "failed"}
ImageCallEnded == image_call.pc \in {"returned", "raised"}

\* C16: the call never sends more than max_polls status requests; once
\* max_polls of them were answered without completed or failed, and the last
\* sleep is over, it has raised MasumiImageClientError; and every call ends.
C16_PollLoopTerminates ==
    /\ [](/\ StatusRequests <= image_call.max_polls
          /\ (/\ Len(image_call.polled) = image_call.max_polls
              /\ \A k \in 1..Len(image_call.polled) : StillPending(image_call.polled[k])
              /\ image_call.pc # "poll_sleep") =>
                 /\ image_call.pc = "raised"
                 /\ image_call.raised.type = "MasumiImageClientError")
    /\ <>ImageCallEnded

\* C16 witness: two polls were allowed, both were answered "still working",
\* and the call raised the poll-limit error
C16_Witness ==
    /\ image_call.pc = "raised"
    /\ image_call.max_polls = 2
    /\ StatusRequests = 2
    /\ \A k \in 1..Len(image_call.polled) : StillPending(image_call.polled[k])
    /\ image_call.raised = MasumiImageClientError("Masumi image job did not complete within poll limit")

\* the position of the first request to `endpoint`, 0 if none was sent
FirstRequest(endpoint) ==
    IF \E k \in 1..Len(image_call.http) : image_call.http[k] = endpoint
    THEN CHOOSE k \in 1..Len(image_call.http) :
            /\ image_call.http[k] = endpoint
            /\ \A m \in 1..(k - 1) : image_call.http[m] # endpoint
    ELSE 0

\* C17: the requests of a call are sent in the order start_job, purchase,
\* status...: a purchase was sent only after /start_job returned a job_id, a
\* status request only after the purchase succeeded, and a call that raised in
\* start_image_job sent no purchase and no status request, one that raised in
\* trigger_purchase no status request.
C17_StartPurchasePoll ==
    /\ \A k \in 1..Len(image_call.http) :
          image_call.http[k] = (IF k = 1 THEN "start_job" ELSE IF k = 2 THEN "purchase" ELSE "status")
    /\ FirstRequest("purchase") # 0 => "job_id" \in DOMAIN image_call.start_resp
    /\ FirstRequest("status") # 0 => image_call.purchased
    /\ image_call.raised_in = "start_image_job" => Len(image_call.http) <= 1
    /\ image_call.raised_in = "trigger_purchase" => Len(image_call.http) <= 2

\* C17 witness: a call that returned sent start_job, purchase and two
\* status requests, in that order, for the job_id that /start_job returned
C17_Witness ==
    /\ image_call.pc = "returned"
    /\ image_call.http = <<"start_job", "purchase", "status", "status">>
    /\ image_call.result.job_id = "img-1"

\* the position of a handler in its run: the five stages in the order of the
\* spec, then the report to the provider, then the end
StagePosition(pc) ==
    CASE pc = "fetch_snippets" -> 1
      [] pc = "synthesize_research" -> 2
      [] pc = "generate_copy" -> 3
      [] pc = "generate_image" -> 4
      [] pc = "generate_hashtags" -> 5
      [] pc = "complete_payment" -> 6
      [] OTHER -> 7

\* C18: in every step, a run that is started is at fetch_snippets, and a run
\* that moves either moves from its stage to the next one in the order
\* fetch_snippets, synthesize_research, generate_copy, generate_image,
\* generate_hashtags, or ends as failed: no stage is entered twice or before
\* its predecessor has finished.
C18_StageOrder ==
    [][\A i \in 1..Len(handlers') :
          IF i > Len(handlers)
          THEN handlers'[i].pc = "fetch_snippets"
          ELSE handlers'[i].pc # handlers[i].pc =>
                  \/ handlers'[i].pc = "failed"
                  \/ StagePosition(handlers'[i].pc) = StagePosition(handlers[i].pc) + 1]_vars

\* C18 witness: a run went through all five stages and holds the output of each
C18_Witness ==
    \E i \in Handlers :
        /\ handlers[i].pc = "complete_payment"
        /\ {"context_snippets", "research_summary", "post", "hashtag_package"}
                \subseteq DOMAIN handlers[i].state
        /\ "image" \in DOMAIN handlers[i].state["metadata"]

\* C19: in every step, a run in which a stage raised moves to failed at once,
\* with the context as it was and the exception stored as the job's error by
\* the caller, and a run that has raised never moves again.
C19_FatalStageAborts ==
    [][\A i \in Handlers :
          /\ handlers[i].raised # NoException => handlers'[i] = handlers[i]
          /\ (handlers[i].raised = NoException /\ handlers'[i].raised \in {SerpApiError, LlmError}) =>
                /\ handlers'[i].pc = "failed"
                /\ handlers'[i].state = handlers[i].state
                /\ jobs'[handlers[i].job].status = "failed"
                /\ jobs'[handlers[i].job].error = handlers'[i].raised.msg]_vars

\* C19 witness: generate_copy raised after fetch_snippets and
\* synthesize_research had returned; neither image nor hashtags stage ran
C19_Witness ==
    \E i \in Handlers :
        /\ handlers[i].pc = "failed"
        /\ handlers[i].raised = LlmError
        /\ "research_summary" \in DOMAIN handlers[i].state
        /\ "post" \notin DOMAIN handlers[i].state
        /\ "hashtag_package" \notin DOMAIN handlers[i].state

\* C20: when start_job has just answered 200 for a job, the job is stored with
\* status awaiting_payment, payment_status pending, the blockchain identifier
\* the provider issued (the one in the response), no result and no error, its
\* Payment object is registered under its job_id and its monitor is running.
C20_StartJobStoresAwaiting ==
    (response.endpoint = "start_job" /\ response.status_code = 200) =>
        LET r == response.job_id IN
        /\ r \in DOMAIN jobs
        /\ jobs[r].status = "awaiting_payment"
        /\ jobs[r].payment_status = "pending"
        /\ jobs[r].blockchain_identifier = BlockchainIdentifier(r)
        /\ jobs[r].blockchain_identifier = response.blockchainIdentifier
        /\ ~HasResult(jobs[r])
        /\ ~HasError(jobs[r])
        /\ r \in payment_instances
        /\ r \in monitoring
        /\ HandlersOf(r) = {}

\* C20 witness: the second start_job has just answered 200 while the first
\* job is already running
C20_Witness ==
    /\ response.endpoint = "start_job"
    /\ response.status_code = 200
    /\ response.job_id = 2
    /\ 1 \in DOMAIN jobs
    /\ jobs[1].status = "running"

\* C21: in every step in which a start_job that was waiting for
\* create_payment_request answers with an error, the job store, the Payment
\* objects and the monitors are left as they were, and no record exists for
\* that request.
C21_PaymentRequestFailureStoresNothing ==
    [][\A r \in JobIds :
          (/\ requests[r].pc = "create_payment_request"
           /\ requests'[r].pc = "done") =>
              /\ response'.endpoint = "start_job"
              /\ response'.job_id = r
              /\ response'.status_code >= 400
              /\ jobs' = jobs
              /\ payment_instances' = payment_instances
              /\ monitoring' = monitoring
              /\ r \notin DOMAIN jobs']_vars

\* C21 witness: a well-formed request in a well-configured process has just
\* been refused, after an earlier job was stored
C21_Witness ==
    /\ env = "ok"
    /\ response.endpoint = "start_job"
    /\ response.status_code = 400
    /\ response.job_id = 2
    /\ requests[2].input.has_required
    /\ DOMAIN jobs = {1}
    /\ payment_instances \subseteq {1}

\* C22: every job's payment_status is one of pending, confirmed, unknown,
\* error.
C22_PaymentStatusEnum ==
    \A j \in DOMAIN jobs : jobs[j].payment_status \in {"pending", "confirmed", "unknown", "error"}

\* C23: no step changes the input_data stored for a job.
C23_InputImmutable ==
    [][\A j \in DOMAIN jobs : jobs'[j].input_data = jobs[j].input_data]_vars

\* C24: no step writes the result of a job that already has one, a step that
\* writes a result is the step that moves the job to completed, and a job
\* that has a result is completed.
C24_ResultWrittenOnce ==
    [][\A j \in DOMAIN jobs :
          /\ HasResult(jobs[j]) => jobs[j].status = "completed"
          /\ HasResult(jobs'[j]) => jobs'[j].status = "completed"
          /\ jobs'[j].result # jobs[j].result =>
                /\ ~HasResult(jobs[j])
                /\ jobs[j].status # "completed"
                /\ jobs'[j].status = "completed"]_vars

\* C25: no step writes the error of a job that already has one, a step that
\* writes an error is the step that moves the job to failed, and a job that
\* has an error is failed.
C25_ErrorWrittenOnce ==
    [][\A j \in DOMAIN jobs :
          /\ HasError(jobs[j]) => jobs[j].status = "failed"
          /\ HasError(jobs'[j]) => jobs'[j].status = "failed"
          /\ jobs'[j].error # jobs[j].error =>
                /\ ~HasError(jobs[j])
                /\ jobs[j].status # "failed"
                /\ jobs'[j].status = "failed"]_vars

\* the job's payment was confirmed once, every stage of the run succeeded and
\* the report to the provider succeeded
ConfirmedOnceAndSucceeded(j) ==
    /\ Cardinality(HandlersOf(j)) = 1
    /\ \A i \in HandlersOf(j) : handlers[i].pc = "completed"
\* the output of generate_copy and generate_hashtags of the job's run
RunOutputs(j) ==
    LET i == CHOOSE i \in HandlersOf(j) : TRUE IN
    [post |-> handlers[i].state["post"], hashtag_package |-> handlers[i].state["hashtag_package"]]

C27_RunningEnds ==
    \A j \in JobIds :
        (j \in DOMAIN jobs /\ jobs[j].status = "running")
            ~> (j \in DOMAIN jobs /\ jobs[j].status \in {"completed", "failed"})

\* C27 witness: a job is running with two invocations of the handler in
\* progress at different stages
C27_Witness ==
    \E j \in DOMAIN jobs :
        /\ jobs[j].status = "running"
        /\ Cardinality(HandlersOf(j)) = 2
        /\ \A i \in HandlersOf(j) : ~Finished(i)
        /\ \E i, k \in HandlersOf(j) : handlers[i].pc # handlers[k].pc

\* C28: in every step, a start_job that returns its 200 response leaves the
\* new job awaiting_payment with no pipeline run started, and a pipeline run
\* is started only by a confirmation callback, for a job whose start_job has
\* already returned.
C28_StartJobDoesNotWait ==
    [][\A r \in JobIds :
          /\ (requests[r].pc # "returned" /\ requests'[r].pc = "returned") =>
                /\ response'.endpoint = "start_job"
                /\ response'.status_code = 200
                /\ jobs'[r].status = "awaiting_payment"
                /\ pipeline_runs'[r] = 0
          /\ pipeline_runs'[r] # pipeline_runs[r] =>
                /\ requests[r].pc = "returned"
                /\ Len(handlers') = Len(handlers) + 1
                /\ handlers'[Len(handlers')].job = r]_vars

\* C28 witness: start_job returned for a job and, later, its pipeline is
\* running in the confirmation callback
C28_Witness ==
    \E i \in Handlers :
        /\ requests[handlers[i].job].pc = "returned"
        /\ pipeline_runs[handlers[i].job] = 1
        /\ handlers[i].pc = "generate_copy"

\* C29: in every step, a status query for a job_id that is not in the job
\* store answers 404, starts no provider check and changes no job record.
C29_UnknownJobNotFound ==
    [][(response'.endpoint = "status" /\ response'.job_id \notin DOMAIN jobs) =>
          /\ response'.status_code = 404
          /\ jobs' = jobs
          /\ status_checks' = status_checks
          /\ status_queries' = status_queries
          /\ payment_instances' = payment_instances]_vars

\* C29 witness: with one job stored, a query for another job_id has just been
\* answered 404
C29_Witness ==
    /\ response.endpoint = "status"
    /\ response.status_code = 404
    /\ response.job_id \notin DOMAIN jobs
    /\ DOMAIN jobs # {}

\* the step changes the record, the Payment object or the monitor of job k
ChangedJob(k) ==
    \/ (k \in DOMAIN jobs') # (k \in DOMAIN jobs)
    \/ (k \in DOMAIN jobs /\ k \in DOMAIN jobs' /\ jobs'[k] # jobs[k])
    \/ (k \in payment_instances') # (k \in payment_instances)
    \/ (k \in monitoring') # (k \in monitoring)
\* the step belongs to an operation carried out for job k: its start_job, an
\* invocation of its handler, or a status query for it
StepOf(k) ==
    \/ requests'[k] # requests[k]
    \/ \E i \in 1..Len(handlers') :
          /\ handlers'[i].job = k
          /\ (i > Len(handlers) \/ handlers'[i] # handlers[i])
    \/ (response'.endpoint = "status" /\ response'.job_id = k)

\* C30: in every step, a job whose record, Payment object or monitor changes
\* is the job the step was carried out for, and no step changes two jobs.
C30_JobsIndependent ==
    [][\A k \in JobIds :
          ChangedJob(k) =>
              /\ StepOf(k)
              /\ \A j \in JobIds \ {k} : ~ChangedJob(j) /\ ~StepOf(j)]_vars

\* C30 witness: one job has failed and lost its monitor while the other is
\* still awaiting payment with its monitor running
C30_Witness ==
    /\ DOMAIN jobs = {1, 2}
    /\ jobs[1].status = "failed"
    /\ 1 \notin payment_instances
    /\ jobs[2].status = "awaiting_payment"
    /\ 2 \in payment_instances
    /\ 2 \in monitoring

\* C31: a call of extract_json never raises and returns a mapping: the parsed
\* object when the stripped text is a JSON object, the object parsed from the
\* span between the first '{' and the last '}' when there is one and it parses
\* to an object, and the fallback when the text is empty or that span does not
\* parse to an object.
C31_ExtractJsonTotal ==
    json_call.pc \notin { "idle", "called" } =>
        LET payload == StripPayload(json_call.text)
            whole == json_loads(payload)
            span == JSON_CANDIDATE(payload)
            inner == IF span = NoneValue THEN ScanRaises("JSONDecodeError")
                     ELSE json_loads(span)
        IN /\ json_call.pc = "returned"
           /\ IsDict(json_call.result)
           /\ (whole.exc = None /\ IsDict(whole.value)) => json_call.result = whole.value
           /\ (inner.exc = None /\ IsDict(inner.value)) => json_call.result = inner.value
           /\ (payload = <<>> \/ ~(inner.exc = None /\ IsDict(inner.value))) =>
                  json_call.result = json_call.fallback

\* C32: while an invocation is waiting for complete_payment to return, its job
\* is already completed with its result stored, and a status query answered
\* for that job at that moment reports status completed.
C32_CompletedBeforeReport ==
    \A i \in Handlers :
        handlers[i].pc = "complete_payment" =>
            LET j == handlers[i].job IN
            /\ jobs[j].status = "completed"
            /\ HasResult(jobs[j])
            /\ (response.endpoint = "status" /\ response.job_id = j) =>
                   response.status = "completed"

\* C33: a call that ended with an error in wait_for_image_result either got
\* the terminal status failed in its last poll, or made max_polls polls that
\* were all answered without a terminal status; in particular its last poll
\* was not answered with an HTTP error status.
C33_PollErrorsOnlyTerminal ==
    image_call.raised_in = "wait_for_image_result" =>
        LET n == Len(image_call.polled) IN
        \/ /\ n > 0
           /\ image_call.polled[n].status_code < 400
           /\ Get(image_call.polled[n].data, "status", None) = "failed"
        \/ /\ n = image_call.max_polls
           /\ StatusRequests = image_call.max_polls
           /\ \A k \in 1..n : StillPending(image_call.polled[k])

\* the metadata map in the context of invocation i
Metadata(i) == Get(handlers[i].state, "metadata", EmptyDict)

\* C34: every step of an invocation keeps each metadata key already written,
\* with its value, and each context key other than metadata with its value;
\* and when the graph has ended metadata holds serp_snippet_count and
\* research_summary, and image or image_error if the post had an image_prompt.
C34_MetadataAdditive ==
    /\ [][\A i \in 1..Len(handlers) :
            LET old == handlers[i].state
                new == handlers'[i].state
                oldMeta == Get(old, "metadata", EmptyDict)
                newMeta == Get(new, "metadata", EmptyDict)
            IN /\ \A k \in DOMAIN oldMeta : k \in DOMAIN newMeta /\ newMeta[k] = oldMeta[k]
               /\ \A k \in DOMAIN old \ {"metadata"} : k \in DOMAIN new /\ new[k] = old[k]]_vars
    /\ [](\A i \in Handlers :
            GraphEnded(i) =>
                /\ {"serp_snippet_count", "research_summary"} \subseteq DOMAIN Metadata(i)
                /\ ~GenerateImageSkipped(handlers[i].state) =>
                       ("image" \in DOMAIN Metadata(i)) # ("image_error" \in DOMAIN Metadata(i)))

\* C34 witness: a run whose image generation failed has ended with the three
\* metadata keys of fetch_snippets, synthesize_research and generate_image
C34_Witness ==
    \E i \in Handlers :
        /\ GraphEnded(i)
        /\ DOMAIN Metadata(i) = {"serp_snippet_count", "research_summary", "image_error"}

\* C35: an invocation that is at generate_image with a post whose image_prompt
\* is missing or empty leaves that stage, in one step, with its context
\* unchanged, without a call of generate_image_with_masumi, and with
\* generate_hashtags as the next stage.
C35_NoPromptSkipsImage ==
    [][\A i \in 1..Len(handlers) :
          (/\ handlers[i].pc = "generate_image"
           /\ Get(Get(handlers[i].state, "post", EmptyDict), "image_prompt", "") = ""
           /\ handlers'[i] # handlers[i]) =>
              /\ handlers'[i].state = handlers[i].state
              /\ handlers'[i].image_calls = handlers[i].image_calls
              /\ handlers'[i].pc = "generate_hashtags"]_vars

\* C35 witness: a run whose post carried an empty image_prompt has ended
\* without any image call and without image metadata
C35_Witness ==
    \E i \in Handlers :
        /\ GraphEnded(i)
        /\ "image_prompt" \in DOMAIN handlers[i].state["post"]
        /\ handlers[i].state["post"]["image_prompt"] = ""
        /\ handlers[i].image_calls = 0
        /\ DOMAIN Metadata(i) = {"serp_snippet_count", "research_summary"}

\* C36: once handle_payment_status has completed a job and set its
\* payment_status to "completed", no later step changes that payment_status.
C36_FinishedPaymentStatusStable ==
    [][\A j \in DOMAIN jobs :
          (jobs[j].status = "completed" /\ jobs[j].payment_status = "completed") =>
              jobs'[j].payment_status = "completed"]_vars

\* C37: after start_job has answered a request with an error, there is no
\* record in jobs and no entry in payment_instances for that request.
C37_FailedStartLeavesNoTrace ==
    \A r \in JobIds :
        requests[r].pc = "done" =>
            /\ r \notin DOMAIN jobs
            /\ r \notin payment_instances

\* C38: with a server configuration error, start_job creates no payment
\* request and its response is an HTTP 500.
C38_ConfigErrorIs500 ==
    env # "ok" =>
        /\ \A r \in JobIds : requests[r].pc \in {"idle", "done"}
        /\ response.endpoint = "start_job" => response.status_code = 500

\* C39: a call of _request_with_retry that has ended made n attempts and slept
\* exactly n-1 times: every sleep was followed by another attempt.
C39_SleepOnlyBetweenAttempts ==
    retry_call.pc \in {"returned", "raised"} =>
        Len(retry_call.sleeps) = retry_call.calls - 1

\* the titles a payload offers, in the order organic results, news results,
\* the first two related questions
OfferedTitles(payload) ==
    LET organic == Get(payload, "organic_results", <<>>)
        news == Get(payload, "news_results", <<>>)
        related == Get(payload, "related_questions", <<>>)
    IN [k \in 1..Len(organic) |-> organic[k]["title"]]
       \o [k \in 1..Len(news) |-> news[k]["title"]]
       \o [k \in 1..(IF Len(related) < 2 THEN Len(related) ELSE 2) |-> related[k]["question"]]

\* C40: a call of _normalize_results with num_results >= 1 returns between one
\* and num_results snippets; they are the payload's entries in the order
\* organic, news, then at most two related questions, cut after num_results;
\* and the result is the single placeholder snippet exactly when the payload
\* has no organic, news or related-question entry.
C40_NormalizeResults ==
    normalize_call.pc = "returned" =>
        LET result == normalize_call.result
            offered == OfferedTitles(normalize_call.payload)
            n == normalize_call.num_results
        IN /\ Len(result) >= 1
           /\ Len(result) <= n
           /\ (offered = <<>>) <=> (result = <<Placeholder(normalize_call.query)>>)
           /\ offered # <<>> =>
                 /\ Len(result) = (IF Len(offered) < n THEN Len(offered) ELSE n)
                 /\ \A k \in 1..Len(result) : result[k].title = offered[k]
                 /\ Cardinality({ k \in 1..Len(result) :
                                    result[k].source = "related_question" }) <= 2

\* C40 witness: with num_results = 3, one organic result, no news and three
\* related questions, the call returned the organic result and two questions
C40_Witness ==
    /\ normalize_call.pc = "returned"
    /\ normalize_call.num_results = 3
    /\ Len(Get(normalize_call.payload, "related_questions", <<>>)) = 3
    /\ Len(normalize_call.result) = 3
    /\ normalize_call.result[1].source = "organic"
    /\ normalize_call.result[2].title = "question 1"
    /\ normalize_call.result[3].title = "question 2"

====
